---- MODULE Spec2Model ----
(***************************************************************************)
(* The blog frontend's views (Home, MyPosts, CreatePost, Profile) as state *)
(* machines over their React state, the auth context they read and the     *)
(* requests they have in flight.  One page is open per behaviour.  Every    *)
(* handler is one action up to its first await; the code after the await    *)
(* is the matching response action, which works on the values the handler   *)
(* closed over when it was called.                                          *)
(***************************************************************************)
EXTENDS Integers, Sequences, FiniteSets, Bags, TLC

\* ------------------------------------------------------------ bounds
MaxPosts == 2        \* post ids are 1..MaxPosts
MaxInFlight == 2     \* requests awaiting their response at one time
MaxRequests == 3     \* requests issued over one behaviour
MaxContentLen == 160 \* characters of a post's content
MaxPromises == 1     \* unsettled browser promises per share channel

PostIds == 1..MaxPosts
LikeCounts == {0, 1}
Titles == {"A", "B"}
Contents == {"x", "y"}
EditTitles == {"A", "B"}     \* what the edit form of MyPosts is typed into
EditContents == {"x"}
Tokens == {"tok"}
Users == {"alice", "alice2"}
Pages == {"home", "myposts", "create", "profile"}

\* ------------------------------------------------------------ values
Null == "null"
ServerMsg == "server message"
NetErrMsg == "Failed to fetch"

MustLogin == "You must be logged in to create a post"
CreateFailed == "Failed to create post"
FetchFailed == "Failed to fetch posts"
LikeAlert == "Please log in to like posts"
LikeFailed == "Failed to toggle like"
LoadFailed == "Failed to load posts. Please try again later."
UpdateFailed == "Failed to update post"
DeleteFailed == "Failed to delete post. Please try again."
ProfileFailed == "Failed to update profile"

\* JavaScript truthiness of a string-or-null value.
Truthy(v) == v # Null /\ v # ""

\* a || b
OrElse(a, b) == IF Truthy(a) THEN a ELSE b

\* `Bearer ${t}`: the template renders an absent token as the text "null".
Bearer(t) == <<"Bearer", t>>
NoHeader == <<"none", Null>>

VARIABLES
    page,          \* the view this behaviour is about
    phase,         \* "init" (constructed), "mounted" (effects ran), "unmounted"
    location,      \* the router's current path
    user, token,   \* the auth context
    storedToken,   \* localStorage 'token'
    net,           \* the bag of requests awaiting their response
    issued,        \* number of requests issued so far
    ev,            \* the last handler or response that ran, and what it showed
    hPosts, hLoading, hError, likingPosts, shareDropdown,     \* Home
    promises,      \* Home: browser promises of handleShare not yet settled
    serverLikes,   \* the like_count the backend holds for each post
    mPosts, isLoading, mError, editingPost, editForm,         \* MyPosts
    formData, cError, cLoading,                               \* CreatePost
    isEditing, pLoading, pError, pForm                        \* Profile

authVars == <<user, token, storedToken>>
homeVars == <<hPosts, hLoading, hError, likingPosts, shareDropdown>>
myVars == <<mPosts, isLoading, mError, editingPost, editForm>>
createVars == <<formData, cError, cLoading>>
profileVars == <<isEditing, pLoading, pError, pForm>>
vars == <<page, phase, location, user, token, storedToken, net, issued, ev, promises,
          serverLikes,
          hPosts, hLoading, hError, likingPosts, shareDropdown,
          mPosts, isLoading, mError, editingPost, editForm,
          formData, cError, cLoading,
          isEditing, pLoading, pError, pForm>>

\* ------------------------------------------------------------ requests
Request(kind, id, auth, cap, capId, body) ==
    [kind |-> kind, id |-> id, auth |-> auth, cap |-> cap, capId |-> capId, body |-> body]

NoBody == [title |-> "", content |-> ""]

Event(op, shown) == [op |-> op, shown |-> shown]

InFlight == BagCardinality(net)

CanSend == InFlight < MaxInFlight /\ issued < MaxRequests

\* fetch(...) / axios.xxx(...): the request leaves, the handler awaits.
Send(r) == /\ CanSend
           /\ net' = net (+) SetToBag({r})
           /\ issued' = issued + 1

NoSend == UNCHANGED <<net, issued>>

Waiting == BagToSet(net)

\* Take with the request sent again when its response arrives.
Take_retry(r) == /\ net' = net
                 /\ issued' = issued + 1

\* The response to the waiting request r arrives.
Take(r) == /\ net' = net (-) SetToBag({r})
           /\ issued' = issued

\* navigate with the route change dropped.
navigate_stay(to) == /\ location' = location
                     /\ phase' = phase

\* useNavigate()(to): the router leaves the open view.
navigate(to) == /\ location' = to
                /\ phase' = "unmounted"

Stay == UNCHANGED <<location, phase>>

PathOf(p) == CASE p = "home" -> "/"
               [] p = "create" -> "/create"
               [] OTHER -> "/profile"

\* ------------------------------------------------------------ posts
HomePost(i, n, l) ==
    [id |-> i, title |-> "T", content |-> "c", author |-> "bob",
     like_count |-> n, is_liked |-> l]

MyPost(i, t, c) == [id |-> i, title |-> t, content |-> c]
NoPost == MyPost(0, "", "")

\* The orders in which the posts of a set of ids can be listed.
RECURSIVE Orders(_)
Orders(S) ==
    IF S = {} THEN {<<>>}
    ELSE UNION {{<<i>> \o s : s \in Orders(S \ {i})} : i \in S}

IdLists == UNION {Orders(S) : S \in SUBSET PostIds}

\* What GET /api/posts can answer with.
HomeLists ==
    UNION {{[k \in 1..Len(ids) |-> HomePost(ids[k], IF f[ids[k]] THEN 1 ELSE 0, f[ids[k]])] :
              f \in [PostIds -> BOOLEAN]} : ids \in IdLists}

\* What GET /api/posts/user can answer with.
\* Ids are labels: the list of n posts is the posts 1..n.
MyLists == {[k \in 1..n |-> MyPost(k, "A", "x")] : n \in 0..MaxPosts}


\* ------------------------------------------------------------ responses
\* What a request can end in: a success, a non-success status whose body may
\* carry a message, or no response at all (the promise rejects).
Failures == {[status |-> "rejected", msg |-> m] : m \in {Null, ServerMsg}}
            \cup {[status |-> "threw", msg |-> Null]}
Success == [status |-> "ok", msg |-> Null]
Outcomes == {Success} \cup Failures

\* FetchError with both fallbacks forgotten: the error is whatever message
\* the response or the rejection carried.
FetchError_messageOnly(out, fallback) ==
    IF out.status = "threw" THEN NetErrMsg ELSE out.msg

\* fetch: `throw new Error(data.message || fallback)` on a non-success status;
\* a rejected fetch carries the browser's own message.  Then
\* `err.message || fallback`.
FetchError(out, fallback) ==
    OrElse(IF out.status = "threw" THEN NetErrMsg ELSE OrElse(out.msg, fallback), fallback)

\* AxiosError with the body's message ignored.
AxiosError_generic(out, fallback) == fallback

\* axios: `err.response?.data?.message || fallback`.
AxiosError(out, fallback) ==
    OrElse(IF out.status = "rejected" THEN out.msg ELSE Null, fallback)

\* navigator.clipboard.writeText(...) and navigator.share(...) return promises;
\* promises[c] counts those of channel c that have not settled.
NoPromises == [copy |-> 0, native |-> 0]

\* The backend's counts are first known to the model when a list response
\* reports them.
NoLikes == [p \in PostIds |-> 0]

\* ------------------------------------------------------------ Init
Init ==
    /\ page \in Pages
    /\ phase = "init"
    /\ location = PathOf(page)
    /\ user \in {Null, "alice"}
    /\ token \in {Null} \cup Tokens
    /\ storedToken = token
    /\ net = EmptyBag
    /\ issued = 0
    /\ ev = Event("init", "")
    /\ hPosts = <<>> /\ hLoading = TRUE /\ hError = Null
    /\ likingPosts = {} /\ shareDropdown = 0
    /\ promises = NoPromises
    /\ serverLikes = NoLikes
    /\ mPosts = <<>> /\ isLoading = TRUE /\ mError = ""
    /\ editingPost = NoPost /\ editForm = NoBody
    /\ formData = NoBody /\ cError = Null /\ cLoading = FALSE
    /\ isEditing = FALSE /\ pLoading = FALSE /\ pError = Null
    /\ pForm = [username |-> "", hasFile |-> FALSE]

\* ------------------------------------------------------------ Navbar
\* AuthContext.logout: clears the in-memory identity and the stored token.
logout == /\ user' = Null
          /\ token' = Null
          /\ storedToken' = Null

handleLogout ==
    /\ phase = "mounted"
    /\ logout
    /\ navigate("/login")
    /\ ev' = Event("handleLogout", "")
    /\ UNCHANGED <<page, serverLikes, promises, net, issued, homeVars, myVars, createVars, profileVars>>

\* A response that arrives after its view was left: React drops the state
\* updates, but a call of navigate still takes effect.
LateResponse(r, out) ==
    /\ phase = "unmounted"
    /\ r \in Waiting
    /\ Take(r)
    /\ location' = IF r.kind = "create" /\ out.status = "ok" THEN "/" ELSE location
    /\ ev' = Event("late", "")
    /\ UNCHANGED <<page, serverLikes, promises, phase, authVars, homeVars, myVars, createVars, profileVars>>

\* ------------------------------------------------------------ CreatePost
\* useEffect(..., [user, token])
CreatePostMount ==
    /\ page = "create" /\ phase = "init"
    /\ phase' = "mounted"
    /\ cError' = IF ~Truthy(user) \/ ~Truthy(token) THEN MustLogin ELSE cError
    /\ ev' = Event("CreatePost.mount", "")
    /\ UNCHANGED <<page, serverLikes, promises, location, authVars, net, issued, homeVars, myVars,
                   formData, cLoading, profileVars>>

CreatePost_handleInputChange(name, value) ==
    /\ page = "create" /\ phase = "mounted"
    /\ formData' = [formData EXCEPT ![name] = value]
    /\ ev' = Event("CreatePost.handleInputChange", "")
    /\ Stay /\ NoSend
    /\ UNCHANGED <<page, serverLikes, promises, authVars, homeVars, myVars, cError, cLoading, profileVars>>

\* NotLoggedIn with the token test forgotten.
NotLoggedIn_userOnly == ~Truthy(user)

\* if (!user || !token)
NotLoggedIn == ~Truthy(user) \/ ~Truthy(token)

CreatePost_handleSubmit ==
    /\ page = "create" /\ phase = "mounted"
    /\ IF NotLoggedIn
       THEN /\ cError' = MustLogin
            /\ cLoading' = FALSE
            /\ NoSend
       ELSE /\ cError' = Null
            /\ cLoading' = TRUE
            /\ Send(Request("create", 0, Bearer(token), <<>>, 0, formData))
    /\ ev' = Event("CreatePost.handleSubmit", IF NotLoggedIn THEN "blocked" ELSE "sent")
    /\ Stay
    /\ UNCHANGED <<page, serverLikes, promises, authVars, homeVars, myVars, formData, profileVars>>

CreatePost_response(r, out) ==
    /\ page = "create" /\ phase = "mounted"
    /\ r \in Waiting /\ r.kind = "create"
    /\ Take(r)
    /\ IF out.status = "ok"
       THEN /\ navigate("/")
            /\ cError' = cError
       ELSE /\ Stay
            /\ cError' = AxiosError(out, CreateFailed)
    /\ cLoading' = FALSE
    /\ ev' = Event("CreatePost.response", IF out.status = "ok" THEN "ok" ELSE "failed")
    /\ UNCHANGED <<page, serverLikes, promises, authVars, homeVars, myVars, formData, profileVars>>

CreatePost_cancel ==
    /\ page = "create" /\ phase = "mounted"
    /\ navigate("/")
    /\ ev' = Event("CreatePost.cancel", "")
    /\ NoSend
    /\ UNCHANGED <<page, serverLikes, promises, authVars, homeVars, myVars, createVars, profileVars>>

\* ------------------------------------------------------------ Home
ListData == {[isArray |-> TRUE, items |-> l] : l \in HomeLists}
            \cup {[isArray |-> FALSE, items |-> <<>>]}

\* The backend's counts after it has answered with the list items: each
\* listed post's count is the one in the answer.
Reported(likes, items) ==
    [p \in PostIds |->
        IF \E k \in 1..Len(items) : items[k].id = p
        THEN (CHOOSE q \in {items[k] : k \in 1..Len(items)} : q.id = p).like_count
        ELSE likes[p]]

\* useEffect(() => { fetchPosts() }, []) up to the await of fetch.
Home_fetchPosts ==
    /\ page = "home" /\ phase = "init"
    /\ phase' = "mounted"
    /\ hLoading' = TRUE
    /\ Send(Request("list", 0, IF Truthy(token) THEN Bearer(token) ELSE NoHeader,
                    <<>>, 0, NoBody))
    /\ ev' = Event("Home.fetchPosts", "")
    /\ UNCHANGED <<page, serverLikes, promises, location, authVars, hPosts, hError, likingPosts,
                   shareDropdown, myVars, createVars, profileVars>>

Home_fetchResponse(r, out, data) ==
    /\ page = "home" /\ phase = "mounted"
    /\ r \in Waiting /\ r.kind = "list"
    /\ Take(r)
    /\ IF out.status = "ok"
       THEN /\ hPosts' = IF data.isArray THEN data.items ELSE <<>>
            /\ hError' = hError
       ELSE /\ hPosts' = hPosts
            /\ hError' = FetchError(out, FetchFailed)
    /\ serverLikes' = IF out.status = "ok" /\ data.isArray
                       THEN Reported(serverLikes, data.items)
                       ELSE serverLikes
    /\ hLoading' = FALSE
    /\ ev' = Event("Home.fetchResponse", IF out.status = "ok" THEN "ok" ELSE "failed")
    /\ Stay
    /\ UNCHANGED <<page, promises, authVars, likingPosts, shareDropdown, myVars,
                   createVars, profileVars>>

\* ApplyLike with the id test forgotten: every post takes the response's values.
ApplyLike_all(posts, postId, data) ==
    [k \in 1..Len(posts) |->
        [posts[k] EXCEPT !.like_count = data.like_count, !.is_liked = data.is_liked]]

\* prevPosts.map(post => post.id === postId ? {...post, like_count, is_liked} : post)
ApplyLike(posts, postId, data) ==
    [k \in 1..Len(posts) |->
        IF posts[k].id = postId
        THEN [posts[k] EXCEPT !.like_count = data.like_count, !.is_liked = data.is_liked]
        ELSE posts[k]]

\* ReleaseLike with the removal forgotten.
ReleaseLike_keep(liking, postId) == liking

\* finally: setLikingPosts(prev => { newSet.delete(postId) })
ReleaseLike(liking, postId) == liking \ {postId}

\* AlreadyLiking with the guard forgotten.
AlreadyLiking_never(postId) == FALSE

\* The guard against a second toggle of a post whose toggle is unresolved.
AlreadyLiking(postId) == postId \in likingPosts

handleLike(postId) ==
    /\ page = "home" /\ phase = "mounted"
    /\ IF ~Truthy(user)
       THEN /\ ev' = Event("handleLike", LikeAlert)
            /\ NoSend
            /\ likingPosts' = likingPosts
       ELSE IF AlreadyLiking(postId)
       THEN /\ ev' = Event("handleLike", "busy")
            /\ NoSend
            /\ likingPosts' = likingPosts
       ELSE IF ~Truthy(token)
       THEN \* added, alerted, returned: the finally block removes it again
            /\ ev' = Event("handleLike", LikeAlert)
            /\ NoSend
            /\ likingPosts' = ReleaseLike(likingPosts \cup {postId}, postId)
       ELSE /\ ev' = Event("handleLike", "sent")
            /\ Send(Request("like", postId, Bearer(token), <<>>, 0, NoBody))
            /\ likingPosts' = likingPosts \cup {postId}
    /\ Stay
    /\ UNCHANGED <<page, serverLikes, promises, authVars, hPosts, hLoading, hError, shareDropdown,
                   myVars, createVars, profileVars>>

LikeData == [like_count : LikeCounts, is_liked : BOOLEAN]

\* handleLike_response with the failure put into the view's error state, as
\* fetchPosts does with its own.
handleLike_response_setError(r, out, data) ==
    /\ page = "home" /\ phase = "mounted"
    /\ r \in Waiting /\ r.kind = "like"
    /\ Take(r)
    /\ IF out.status = "ok"
       THEN /\ hPosts' = ApplyLike(hPosts, r.id, data)
            /\ hError' = hError
            /\ ev' = Event("handleLike.response", "ok")
       ELSE /\ hPosts' = hPosts
            /\ hError' = FetchError(out, LikeFailed)
            /\ ev' = Event("handleLike.response", FetchError(out, LikeFailed))
    /\ serverLikes' = IF out.status = "ok"
                       THEN [serverLikes EXCEPT ![r.id] = data.like_count]
                       ELSE serverLikes
    /\ likingPosts' = ReleaseLike(likingPosts, r.id)
    /\ Stay
    /\ UNCHANGED <<page, promises, authVars, hLoading, shareDropdown, myVars,
                   createVars, profileVars>>

\* handleLike_response with the list fetched again after a toggle succeeded.
handleLike_response_refetch(r, out, data) ==
    /\ page = "home" /\ phase = "mounted"
    /\ r \in Waiting /\ r.kind = "like"
    /\ IF out.status = "ok"
       THEN /\ hPosts' = ApplyLike(hPosts, r.id, data)
            /\ ev' = Event("handleLike.response", "ok")
            /\ net' = (net (-) SetToBag({r}))
                        (+) SetToBag({Request("list", 0, Bearer(token), <<>>, 0, NoBody)})
            /\ issued' = issued
       ELSE /\ hPosts' = hPosts
            /\ ev' = Event("handleLike.response", FetchError(out, LikeFailed))
            /\ Take(r)
    /\ serverLikes' = IF out.status = "ok"
                       THEN [serverLikes EXCEPT ![r.id] = data.like_count]
                       ELSE serverLikes
    /\ likingPosts' = ReleaseLike(likingPosts, r.id)
    /\ Stay
    /\ UNCHANGED <<page, promises, authVars, hLoading, hError, shareDropdown, myVars,
                   createVars, profileVars>>

\* handleLike after the awaits of fetch and response.json(): the backend has
\* toggled the like and answered with the post's count.
handleLike_response(r, out, data) ==
    /\ page = "home" /\ phase = "mounted"
    /\ r \in Waiting /\ r.kind = "like"
    /\ Take(r)
    /\ IF out.status = "ok"
       THEN /\ hPosts' = ApplyLike(hPosts, r.id, data)
            /\ ev' = Event("handleLike.response", "ok")
       ELSE /\ hPosts' = hPosts
            /\ ev' = Event("handleLike.response", FetchError(out, LikeFailed))
    /\ serverLikes' = IF out.status = "ok"
                       THEN [serverLikes EXCEPT ![r.id] = data.like_count]
                       ELSE serverLikes
    /\ likingPosts' = ReleaseLike(likingPosts, r.id)
    /\ Stay
    /\ UNCHANGED <<page, promises, authVars, hLoading, hError, shareDropdown, myVars,
                   createVars, profileVars>>

\* Another client likes or unlikes a post this view lists: the backend's
\* count changes, and nothing tells this view.
OtherClient(p) ==
    /\ page = "home" /\ phase = "mounted"
    /\ \E k \in 1..Len(hPosts) : hPosts[k].id = p
    /\ \E n \in LikeCounts \ {serverLikes[p]} :
          serverLikes' = [serverLikes EXCEPT ![p] = n]
    /\ ev' = Event("otherClient", "")
    /\ Stay /\ NoSend
    /\ UNCHANGED <<page, promises, authVars, homeVars, myVars, createVars, profileVars>>

\* ------------------------------------------------------------ MyPosts
\* The shapes of response.data that fetchPosts tells apart.
MineData == {[shape |-> "array", items |-> l] : l \in MyLists}
            \cup {[shape |-> "wrapped", items |-> l] : l \in MyLists}
            \cup {[shape |-> "other", items |-> <<>>]}

\* useEffect(() => { fetchPosts() }, []) up to the await of axios.get.
MyPosts_fetchPosts ==
    /\ page = "myposts" /\ phase = "init"
    /\ phase' = "mounted"
    /\ Send(Request("listMine", 0, Bearer(token), <<>>, 0, NoBody))
    /\ ev' = Event("MyPosts.fetchPosts", "")
    /\ UNCHANGED <<page, serverLikes, promises, location, authVars, homeVars, myVars, createVars, profileVars>>

MyPosts_fetchResponse(r, out, data) ==
    /\ page = "myposts" /\ phase = "mounted"
    /\ r \in Waiting /\ r.kind = "listMine"
    /\ Take(r)
    /\ IF out.status = "ok"
       THEN /\ mPosts' = data.items
            /\ mError' = mError
       ELSE /\ mPosts' = mPosts
            /\ mError' = LoadFailed
    /\ isLoading' = FALSE
    /\ ev' = Event("MyPosts.fetchResponse", IF out.status = "ok" THEN "ok" ELSE "failed")
    /\ Stay
    /\ UNCHANGED <<page, serverLikes, promises, authVars, homeVars, editingPost, editForm, createVars,
                   profileVars>>

\* handleEdit with the form left as the last edit filled it.
handleEdit_keepForm(post) ==
    /\ page = "myposts" /\ phase = "mounted"
    /\ editingPost' = post
    /\ editForm' = editForm
    /\ ev' = Event("handleEdit", "")
    /\ Stay /\ NoSend
    /\ UNCHANGED <<page, serverLikes, promises, authVars, homeVars, mPosts, isLoading, mError, createVars,
                   profileVars>>

\* the Edit button of a listed post
handleEdit(post) ==
    /\ page = "myposts" /\ phase = "mounted"
    /\ editingPost' = post
    /\ editForm' = [title |-> post.title, content |-> post.content]
    /\ ev' = Event("handleEdit", "")
    /\ Stay /\ NoSend
    /\ UNCHANGED <<page, serverLikes, promises, authVars, homeVars, mPosts, isLoading, mError, createVars,
                   profileVars>>

\* onChange of the edit form's inputs
editForm_onChange(name, value) ==
    /\ page = "myposts" /\ phase = "mounted"
    /\ editingPost # NoPost
    /\ editForm' = [editForm EXCEPT ![name] = value]
    /\ ev' = Event("editForm.onChange", "")
    /\ Stay /\ NoSend
    /\ UNCHANGED <<page, serverLikes, promises, authVars, homeVars, mPosts, isLoading, mError, editingPost,
                   createVars, profileVars>>

\* the Cancel button of the edit form
cancelEdit ==
    /\ page = "myposts" /\ phase = "mounted"
    /\ editingPost # NoPost
    /\ editingPost' = NoPost
    /\ ev' = Event("cancelEdit", "")
    /\ Stay /\ NoSend
    /\ UNCHANGED <<page, serverLikes, promises, authVars, homeVars, mPosts, isLoading, mError, editForm,
                   createVars, profileVars>>

\* handleEditSubmit up to the await of axios.put.  The continuation closes
\* over this render's posts and editingPost.
handleEditSubmit ==
    /\ page = "myposts" /\ phase = "mounted"
    /\ IF editingPost = NoPost
       THEN NoSend
       ELSE Send(Request("update", editingPost.id, Bearer(token), mPosts,
                         editingPost.id, editForm))
    /\ ev' = Event("handleEditSubmit", IF editingPost = NoPost THEN "none" ELSE "sent")
    /\ Stay
    /\ UNCHANGED <<page, serverLikes, promises, authVars, homeVars, myVars, createVars, profileVars>>

\* What PUT /api/posts/:id can answer a success with: the updated post, or
\* an empty body.
UpdateData(req) ==
    {[present |-> TRUE, post |-> MyPost(req.id, req.body.title, req.body.content)],
     [present |-> FALSE, post |-> NoPost]}

\* posts.map(post => post.id === editingPost.id ? response.data : post)
ReplacePost(posts, id, new) ==
    [k \in 1..Len(posts) |-> IF posts[k].id = id THEN new ELSE posts[k]]

\* The list the continuation of handleEditSubmit maps over.
EditBase(req) == req.cap

\* The message of the error handleEditSubmit throws for an empty body.
NoData == "No data received from server"

\* handleEditSubmit_response with the test of response.data forgotten: the
\* empty body is put into the list as the post.
handleEditSubmit_response_unchecked(r, out, data) ==
    /\ page = "myposts" /\ phase = "mounted"
    /\ r \in Waiting /\ r.kind = "update"
    /\ Take(r)
    /\ IF out.status = "ok"
       THEN /\ mPosts' = ReplacePost(EditBase(r), r.capId, data.post)
            /\ editingPost' = NoPost
            /\ mError' = mError
       ELSE /\ mPosts' = mPosts
            /\ editingPost' = editingPost
            /\ mError' = AxiosError(out, UpdateFailed)
    /\ ev' = Event("handleEditSubmit.response",
                   IF out.status = "ok" /\ data.present THEN "ok"
                   ELSE IF out.status = "ok" THEN NoData ELSE "failed")
    /\ Stay
    /\ UNCHANGED <<page, serverLikes, promises, authVars, homeVars, isLoading, editForm, createVars,
                   profileVars>>

\* handleEditSubmit after the await of axios.put.
handleEditSubmit_response(r, out, data) ==
    /\ page = "myposts" /\ phase = "mounted"
    /\ r \in Waiting /\ r.kind = "update"
    /\ Take(r)
    /\ IF out.status = "ok" /\ data.present
       THEN /\ mPosts' = ReplacePost(EditBase(r), r.capId, data.post)
            /\ editingPost' = NoPost
            /\ mError' = mError
       ELSE /\ mPosts' = mPosts
            /\ editingPost' = editingPost
            /\ mError' = AxiosError(out, UpdateFailed)
    /\ ev' = Event("handleEditSubmit.response",
                   IF out.status = "ok" /\ data.present THEN "ok"
                   ELSE IF out.status = "ok" THEN NoData ELSE "failed")
    /\ Stay
    /\ UNCHANGED <<page, serverLikes, promises, authVars, homeVars, isLoading, editForm, createVars,
                   profileVars>>

\* handleDelete up to the await of axios.delete; `confirmed` is the answer to
\* window.confirm.  The continuation closes over this render's posts.
\* Declined with the answer ignored.
Declined_never(confirmed) == FALSE

\* if (!window.confirm(...)) return
Declined(confirmed) == ~confirmed

handleDelete(postId, confirmed) ==
    /\ page = "myposts" /\ phase = "mounted"
    /\ IF Declined(confirmed)
       THEN NoSend
       ELSE Send(Request("delete", postId, Bearer(token), mPosts, postId, NoBody))
    /\ ev' = Event("handleDelete", IF confirmed THEN "confirmed" ELSE "declined")
    /\ Stay
    /\ UNCHANGED <<page, serverLikes, promises, authVars, homeVars, myVars, createVars, profileVars>>

\* posts.filter(post => post.id !== postId)
WithoutPost(posts, postId) == SelectSeq(posts, LAMBDA q : q.id # postId)

\* The list the continuation of handleDelete filters.
DeleteBase(req) == req.cap

handleDelete_response(r, out) ==
    /\ page = "myposts" /\ phase = "mounted"
    /\ r \in Waiting /\ r.kind = "delete"
    /\ Take(r)
    /\ IF out.status = "ok"
       THEN /\ mPosts' = WithoutPost(DeleteBase(r), r.id)
            /\ mError' = mError
       ELSE /\ mPosts' = mPosts
            /\ mError' = DeleteFailed
    /\ ev' = Event("handleDelete.response",
                   IF out.status = "ok" THEN "ok" ELSE "failed")
    /\ Stay
    /\ UNCHANGED <<page, serverLikes, promises, authVars, homeVars, isLoading, editingPost, editForm,
                   createVars, profileVars>>

\* ------------------------------------------------------------ Profile
FormOf(u) == [username |-> u, hasFile |-> FALSE]

\* useEffect(..., [user]): the form is filled from the user.
Profile_mount ==
    /\ page = "profile" /\ phase = "init"
    /\ phase' = "mounted"
    /\ pForm' = IF Truthy(user) THEN FormOf(user) ELSE pForm
    /\ ev' = Event("Profile.mount", "")
    /\ UNCHANGED <<page, serverLikes, promises, location, authVars, net, issued, homeVars, myVars,
                   createVars, isEditing, pLoading, pError>>

\* the Edit Profile button
Profile_edit ==
    /\ page = "profile" /\ phase = "mounted"
    /\ ~isEditing
    /\ isEditing' = TRUE
    /\ ev' = Event("Profile.edit", "")
    /\ Stay /\ NoSend
    /\ UNCHANGED <<page, serverLikes, promises, authVars, homeVars, myVars, createVars, pLoading, pError, pForm>>

Profile_handleInputChange(value) ==
    /\ page = "profile" /\ phase = "mounted"
    /\ pForm' = [pForm EXCEPT !.username = value]
    /\ ev' = Event("Profile.handleInputChange", "")
    /\ Stay /\ NoSend
    /\ UNCHANGED <<page, serverLikes, promises, authVars, homeVars, myVars, createVars, isEditing, pLoading,
                   pError>>

Profile_handleFileChange ==
    /\ page = "profile" /\ phase = "mounted"
    /\ pForm' = [pForm EXCEPT !.hasFile = TRUE]
    /\ ev' = Event("Profile.handleFileChange", "")
    /\ Stay /\ NoSend
    /\ UNCHANGED <<page, serverLikes, promises, authVars, homeVars, myVars, createVars, isEditing, pLoading,
                   pError>>

Profile_handleCancel ==
    /\ page = "profile" /\ phase = "mounted"
    /\ isEditing' = FALSE
    /\ pForm' = IF Truthy(user) THEN FormOf(user) ELSE pForm
    /\ ev' = Event("Profile.handleCancel", "")
    /\ Stay /\ NoSend
    /\ UNCHANGED <<page, serverLikes, promises, authVars, homeVars, myVars, createVars, pLoading, pError>>

\* handleSubmit up to the await of fetch; the header is built from
\* localStorage.getItem('token').
Profile_handleSubmit ==
    /\ page = "profile" /\ phase = "mounted"
    /\ pLoading' = TRUE
    /\ pError' = Null
    /\ Send(Request("profile", 0, Bearer(storedToken), <<>>, 0, pForm))
    /\ ev' = Event("Profile.handleSubmit", "")
    /\ Stay
    /\ UNCHANGED <<page, serverLikes, promises, authVars, homeVars, myVars, createVars, isEditing, pForm>>

\* AuthContext.updateUser
updateUser(u) == /\ user' = u
                 /\ UNCHANGED <<token, storedToken>>

\* Profile_response with updateUser called before the status is looked at.
Profile_response_always(r, out, u) ==
    /\ page = "profile" /\ phase = "mounted"
    /\ r \in Waiting /\ r.kind = "profile"
    /\ Take(r)
    /\ updateUser(u)
    /\ IF out.status = "ok"
       THEN /\ isEditing' = FALSE
            /\ pError' = pError
            /\ pForm' = IF u # user THEN FormOf(u) ELSE pForm
       ELSE /\ isEditing' = isEditing
            /\ pError' = FetchError(out, ProfileFailed)
            /\ pForm' = pForm
    /\ pLoading' = FALSE
    /\ ev' = Event("Profile.response", IF out.status = "ok" THEN "ok" ELSE "failed")
    /\ Stay
    /\ UNCHANGED <<page, serverLikes, promises, homeVars, myVars, createVars>>

\* The continuation of handleSubmit after the await of fetch.
Profile_response(r, out, u) ==
    /\ page = "profile" /\ phase = "mounted"
    /\ r \in Waiting /\ r.kind = "profile"
    /\ Take(r)
    /\ IF out.status = "ok"
       THEN /\ updateUser(u)
            /\ isEditing' = FALSE
            /\ pError' = pError
            /\ pForm' = IF u # user THEN FormOf(u) ELSE pForm
       ELSE /\ UNCHANGED authVars
            /\ isEditing' = isEditing
            /\ pError' = FetchError(out, ProfileFailed)
            /\ pForm' = pForm
    /\ pLoading' = FALSE
    /\ ev' = Event("Profile.response", IF out.status = "ok" THEN "ok" ELSE "failed")
    /\ Stay
    /\ UNCHANGED <<page, serverLikes, promises, homeVars, myVars, createVars>>

\* ------------------------------------------------------------ what is rendered
\* Home: if (loading) spinner; if (error) the error box; otherwise the page,
\* with the empty-state message when posts.length === 0 and the cards
\* otherwise.
HomeView ==
    IF hLoading THEN "loading"
    ELSE IF Truthy(hError) THEN "error"
    ELSE IF Len(hPosts) = 0 THEN "empty"
    ELSE "list"

\* MyPostsView with the list tested before the error.
MyPostsView_listFirst ==
    IF isLoading THEN "loading"
    ELSE IF Len(mPosts) # 0 THEN "list"
    ELSE IF Truthy(mError) THEN "error"
    ELSE "empty"

\* MyPosts: if (isLoading) spinner; if (error) the error box; if
\* (posts.length === 0) the empty-state message; otherwise the list.
MyPostsView ==
    IF isLoading THEN "loading"
    ELSE IF Truthy(mError) THEN "error"
    ELSE IF Len(mPosts) = 0 THEN "empty"
    ELSE "list"

\* CreatePost renders its form only with a user and a token.
CreatePostView == IF NotLoggedIn THEN "authRequired" ELSE "form"

\* Profile renders only with a user.
ProfileView == IF ~Truthy(user) THEN "loginPrompt" ELSE "profile"

\* The open view offers the user its handlers: the Like and Share buttons of
\* Home's cards, the Edit and Delete buttons of MyPosts' list, the form of
\* CreatePost, the profile page.
ActionsOffered ==
    CASE page = "home" -> HomeView = "list"
      [] page = "myposts" -> MyPostsView = "list"
      [] page = "create" -> CreatePostView = "form"
      [] OTHER -> ProfileView = "profile"

\* The error the open view holds.
ViewError ==
    CASE page = "home" -> hError
      [] page = "myposts" -> mError
      [] page = "create" -> cError
      [] OTHER -> pError

\* ------------------------------------------------------------ Home's cards
\* Strings are sequences of characters.  Text(n) is a content of n characters
\* in which neighbours differ.
Text(n) == [k \in 1..n |-> <<"a", "b", "c">>[(k % 3) + 1]]

SummaryLimit == 150
Ellipsis == <<".", ".", ".">>

\* Summary with the limit itself already cut.
Summary_cutAtLimit(content) ==
    IF Len(content) >= SummaryLimit
    THEN SubSeq(content, 1, SummaryLimit) \o Ellipsis
    ELSE content

\* post.content.length > 150 ? `${post.content.substring(0, 150)}...` : post.content
Summary(content) ==
    IF Len(content) > SummaryLimit
    THEN SubSeq(content, 1, SummaryLimit) \o Ellipsis
    ELSE content

\* The card of the k-th post is rendered: its <p> shows the summary.
Home_renderCard(k) ==
    /\ page = "home" /\ phase = "mounted"
    /\ HomeView = "list"
    /\ k \in 1..Len(hPosts)
    /\ ev' = Event("Home.card", Summary(hPosts[k].content))
    /\ Stay /\ NoSend
    /\ UNCHANGED <<page, serverLikes, promises, authVars, homeVars, myVars, createVars, profileVars>>

\* Home showing one post, whose content has any length up to MaxContentLen.
InitSummary ==
    /\ page = "home"
    /\ phase = "mounted"
    /\ location = PathOf(page)
    /\ user \in {Null, "alice"}
    /\ token = (IF user = Null THEN Null ELSE "tok")
    /\ storedToken = token
    /\ net = EmptyBag
    /\ issued = 1
    /\ ev = Event("Home.fetchResponse", "ok")
    /\ \E n \in 0..MaxContentLen :
          hPosts = <<[HomePost(1, 0, FALSE) EXCEPT !.content = Text(n)]>>
    /\ hLoading = FALSE /\ hError = Null
    /\ likingPosts = {} /\ shareDropdown = 0
    /\ promises = NoPromises
    /\ serverLikes = NoLikes
    /\ mPosts = <<>> /\ isLoading = TRUE /\ mError = ""
    /\ editingPost = NoPost /\ editForm = NoBody
    /\ formData = NoBody /\ cError = Null /\ cLoading = FALSE
    /\ isEditing = FALSE /\ pLoading = FALSE /\ pError = Null
    /\ pForm = [username |-> "", hasFile |-> FALSE]

SpecSummary == InitSummary /\ [][\E k \in 1..Len(hPosts) : Home_renderCard(k)]_vars

\* ------------------------------------------------------------ Home: sharing
Channels == {"copy", "twitter", "facebook", "linkedin", "email", "native", "other"}

\* encodeURIComponent: the text, percent-encoded.
encodeURIComponent(text) == "enc(" \o text \o ")"

\* `${window.location.origin}/post/${postId}`
PostUrl(postId) == "origin/post/" \o ToString(postId)

\* `Check out this post: "${post.title}" by ${post.author.username}`
ShareText(post) == "Check out this post: " \o post.title \o " by " \o post.author

NoEffect == "none"

\* ShareEffect with navigator.share called whether the browser has it or not.
ShareEffect_nativeAlways(postId, type, post, hasShare) ==
    CASE type = "copy" -> "clipboard.writeText " \o PostUrl(postId)
      [] type = "twitter" ->
           "window.open https://twitter.com/intent/tweet?text="
             \o encodeURIComponent(ShareText(post))
             \o "&url=" \o encodeURIComponent(PostUrl(postId))
      [] type = "facebook" ->
           "window.open https://www.facebook.com/sharer/sharer.php?u="
             \o encodeURIComponent(PostUrl(postId))
      [] type = "linkedin" ->
           "window.open https://www.linkedin.com/sharing/share-offsite/?url="
             \o encodeURIComponent(PostUrl(postId))
      [] type = "email" ->
           "location.href mailto:?subject=" \o encodeURIComponent(post.title)
             \o "&body=" \o encodeURIComponent(ShareText(post) \o PostUrl(postId))
      [] type = "native" ->
           "navigator.share " \o PostUrl(postId)
      [] OTHER -> NoEffect

\* The one browser call handleShare makes for a channel.
ShareEffect(postId, type, post, hasShare) ==
    CASE type = "copy" -> "clipboard.writeText " \o PostUrl(postId)
      [] type = "twitter" ->
           "window.open https://twitter.com/intent/tweet?text="
             \o encodeURIComponent(ShareText(post))
             \o "&url=" \o encodeURIComponent(PostUrl(postId))
      [] type = "facebook" ->
           "window.open https://www.facebook.com/sharer/sharer.php?u="
             \o encodeURIComponent(PostUrl(postId))
      [] type = "linkedin" ->
           "window.open https://www.linkedin.com/sharing/share-offsite/?url="
             \o encodeURIComponent(PostUrl(postId))
      [] type = "email" ->
           "location.href mailto:?subject=" \o encodeURIComponent(post.title)
             \o "&body=" \o encodeURIComponent(ShareText(post) \o PostUrl(postId))
      [] type = "native" ->
           IF hasShare THEN "navigator.share " \o PostUrl(postId) ELSE NoEffect
      [] OTHER -> NoEffect

\* handleShare up to the end of its switch; hasShare is whether this browser
\* has navigator.share.  copy and native leave a promise to settle.
handleShare(postId, type, post, hasShare) ==
    /\ page = "home" /\ phase = "mounted"
    /\ ev' = Event("handleShare", ShareEffect(postId, type, post, hasShare))
    /\ shareDropdown' = IF type \in {"twitter", "facebook", "linkedin", "email"}
                        THEN 0 ELSE shareDropdown
    /\ IF type = "copy" \/ (type = "native" /\ hasShare)
       THEN /\ promises[type] < MaxPromises
            /\ promises' = [promises EXCEPT ![type] = @ + 1]
       ELSE promises' = promises
    /\ Stay /\ NoSend
    /\ UNCHANGED <<page, serverLikes, authVars, hPosts, hLoading, hError, likingPosts,
                   myVars, createVars, profileVars>>

\* handleShare_settled with the dropdown closed however the promise settles.
handleShare_settled_closeAlways(type, ok) ==
    /\ page = "home" /\ phase \in {"mounted", "unmounted"}
    /\ promises[type] > 0
    /\ promises' = [promises EXCEPT ![type] = @ - 1]
    /\ shareDropdown' = IF phase = "mounted" THEN 0 ELSE shareDropdown
    /\ ev' = Event("handleShare.settled",
                   CASE type = "copy" /\ ok -> "Link copied to clipboard!"
                     [] type = "copy" /\ ~ok -> "Failed to copy link"
                     [] OTHER -> IF ok THEN "shared" ELSE "not shared")
    /\ Stay /\ NoSend
    /\ UNCHANGED <<page, serverLikes, authVars, hPosts, hLoading, hError, likingPosts,
                   myVars, createVars, profileVars>>

\* The promise of a copy or a native share settles: .then(...) when ok,
\* .catch(...) otherwise.  After the view was left only the alert remains.
handleShare_settled(type, ok) ==
    /\ page = "home" /\ phase \in {"mounted", "unmounted"}
    /\ promises[type] > 0
    /\ promises' = [promises EXCEPT ![type] = @ - 1]
    /\ shareDropdown' = IF ok /\ phase = "mounted" THEN 0 ELSE shareDropdown
    /\ ev' = Event("handleShare.settled",
                   CASE type = "copy" /\ ok -> "Link copied to clipboard!"
                     [] type = "copy" /\ ~ok -> "Failed to copy link"
                     [] OTHER -> IF ok THEN "shared" ELSE "not shared")
    /\ Stay /\ NoSend
    /\ UNCHANGED <<page, serverLikes, authVars, hPosts, hLoading, hError, likingPosts,
                   myVars, createVars, profileVars>>

toggleShareDropdown(postId) ==
    /\ page = "home" /\ phase = "mounted"
    /\ shareDropdown' = IF shareDropdown = postId THEN 0 ELSE postId
    /\ ev' = Event("toggleShareDropdown", "")
    /\ Stay /\ NoSend
    /\ UNCHANGED <<page, serverLikes, promises, authVars, hPosts, hLoading, hError, likingPosts,
                   myVars, createVars, profileVars>>

\* The mousedown listener that is registered while a dropdown is open; the
\* click is outside the dropdown.
handleClickOutside ==
    /\ page = "home" /\ phase = "mounted"
    /\ shareDropdown # 0
    /\ shareDropdown' = 0
    /\ ev' = Event("handleClickOutside", "")
    /\ Stay /\ NoSend
    /\ UNCHANGED <<page, serverLikes, promises, authVars, hPosts, hLoading, hError, likingPosts,
                   myVars, createVars, profileVars>>

\* ------------------------------------------------------------ the system
NextShared ==
    \/ handleLogout
    \/ \E r \in Waiting, out \in Outcomes : LateResponse(r, out)

NextCreatePost ==
    \/ CreatePostMount
    \/ \E name \in {"title"}, value \in Titles : CreatePost_handleInputChange(name, value)
    \/ \E name \in {"content"}, value \in Contents : CreatePost_handleInputChange(name, value)
    \/ CreatePost_handleSubmit
    \/ \E r \in Waiting, out \in Outcomes : CreatePost_response(r, out)
    \/ CreatePost_cancel

NextHome ==
    \/ Home_fetchPosts
    \/ \E r \in Waiting, out \in Outcomes, data \in ListData :
          Home_fetchResponse(r, out, data)
    \/ \E k \in 1..Len(hPosts) : handleLike(hPosts[k].id)
    \/ \E r \in Waiting, out \in Outcomes, data \in LikeData :
          handleLike_response(r, out, data)

NextMyPosts ==
    \/ MyPosts_fetchPosts
    \/ \E r \in Waiting, out \in Outcomes, data \in MineData :
          MyPosts_fetchResponse(r, out, data)
    \/ \E k \in 1..Len(mPosts) : handleEdit(mPosts[k])
    \/ \E name \in {"title"}, value \in EditTitles : editForm_onChange(name, value)
    \/ \E name \in {"content"}, value \in EditContents : editForm_onChange(name, value)
    \/ cancelEdit
    \/ handleEditSubmit
    \/ \E r \in {q \in Waiting : q.kind = "update"}, out \in Outcomes :
          \E data \in UpdateData(r) : handleEditSubmit_response(r, out, data)
    \/ \E k \in 1..Len(mPosts), confirmed \in BOOLEAN : handleDelete(mPosts[k].id, confirmed)
    \/ \E r \in Waiting, out \in Outcomes : handleDelete_response(r, out)

NextProfile ==
    \/ Profile_mount
    \/ Profile_edit
    \/ \E value \in Users : Profile_handleInputChange(value)
    \/ Profile_handleFileChange
    \/ Profile_handleCancel
    \/ Profile_handleSubmit
    \/ \E r \in Waiting, out \in Outcomes, u \in Users : Profile_response(r, out, u)

Next == NextShared \/ NextCreatePost \/ NextHome \/ NextMyPosts \/ NextProfile

Spec == Init /\ [][Next]_vars

\* One page at a time: the route renders one component under the Navbar.
InitHome == Init /\ page = "home"
InitMyPosts == Init /\ page = "myposts"
InitCreatePost == Init /\ page = "create"
InitProfile == Init /\ page = "profile"

SpecHome == InitHome /\ [][NextShared \/ NextHome]_vars
SpecMyPosts == InitMyPosts /\ [][NextShared \/ NextMyPosts]_vars
SpecCreatePost == InitCreatePost /\ [][NextShared \/ NextCreatePost]_vars
SpecProfile == InitProfile /\ [][NextShared \/ NextProfile]_vars

\* MyPosts in a signed-in session.
InitMyPostsSignedIn == InitMyPosts /\ user # Null /\ token # Null
SpecMyPostsSignedIn == InitMyPostsSignedIn /\ [][NextShared \/ NextMyPosts]_vars

\* Home with the share dropdown of its cards.
NextShare ==
    \/ \E k \in 1..Len(hPosts), type \in Channels, hasShare \in BOOLEAN :
          handleShare(hPosts[k].id, type, hPosts[k], hasShare)
    \/ \E type \in {"copy", "native"}, ok \in BOOLEAN : handleShare_settled(type, ok)
    \/ \E k \in 1..Len(hPosts) : toggleShareDropdown(hPosts[k].id)
    \/ handleClickOutside

SpecShare == InitHome /\ [][NextShared \/ NextHome \/ NextShare]_vars

\* The two list views.
InitLists == Init /\ page \in {"home", "myposts"}
SpecLists == InitLists /\ [][NextShared \/ NextHome \/ NextMyPosts]_vars

\* Every view, with Home's share dropdown.
SpecAll == Init /\ [][Next \/ NextShare]_vars

\* Home, with other clients of the same backend.
NextOthers == \E p \in PostIds : OtherClient(p)
SpecDrift == InitHome /\ [][NextShared \/ NextHome \/ NextOthers]_vars

\* Home on a network that answers: a like request that awaits its response
\* gets one.
LikeResolves(p) ==
    \E r \in {x \in Waiting : x.kind = "like" /\ x.id = p} :
        \E out \in Outcomes, data \in LikeData : handleLike_response(r, out, data)
SpecHomeFair == SpecHome /\ \A p \in PostIds : WF_vars(LikeResolves(p))

\* ------------------------------------------------------------ claims
LikesInFlight(p) ==
    LET rs == {r \in Waiting : r.kind = "like" /\ r.id = p}
    IN  IF rs = {} THEN 0 ELSE CopiesIn(CHOOSE r \in rs : TRUE, net)

\* C1: whenever CreatePost's handleSubmit runs with user absent or token
\* absent, no request is issued, error becomes the must-be-logged-in message,
\* loading ends false and the router stays where it is, whatever was typed
\* or submitted before.
C1_SubmitWithoutIdentity ==
    [][(CreatePost_handleSubmit /\ (user = Null \/ token = Null))
         => /\ net' = net
            /\ cError' = MustLogin
            /\ cLoading' = FALSE
            /\ location' = location /\ phase' = phase]_vars

\* C1 happens: a submit was blocked with a present user and an absent token,
\* after the form had been typed into.
C1_Witness ==
    /\ ev = Event("CreatePost.handleSubmit", "blocked")
    /\ user # Null /\ token = Null
    /\ formData.title \in Titles /\ formData.content \in Contents
    /\ net = EmptyBag /\ cError = MustLogin /\ ~cLoading

\* C2: a handleLike(p) invoked while a like request for p is unresolved issues
\* no request, and at no time is more than one like request for p in flight.
C2_OneLikeInFlight ==
    /\ [](\A p \in PostIds : LikesInFlight(p) <= 1)
    /\ [][\A p \in PostIds : (handleLike(p) /\ LikesInFlight(p) > 0) => net' = net]_vars

\* C2 happens: handleLike returned at its guard while a like was in flight.
C2_Witness ==
    /\ ev = Event("handleLike", "busy")
    /\ \E p \in PostIds : LikesInFlight(p) = 1 /\ p \in likingPosts

\* C3: a successful like response for p replaces like_count and is_liked of
\* the one entry with id p by the response's values; its other fields, every
\* other entry, the order and the length of the list are unchanged.
C3_LikeTouchesOnePost ==
    [][\A r \in Waiting : \A data \in LikeData :
         handleLike_response(r, Success, data)
         => /\ Len(hPosts') = Len(hPosts)
            /\ Cardinality({k \in 1..Len(hPosts) : hPosts[k].id = r.id}) = 1
            /\ \A k \in 1..Len(hPosts) :
                 IF hPosts[k].id = r.id
                 THEN /\ hPosts'[k].like_count = data.like_count
                      /\ hPosts'[k].is_liked = data.is_liked
                      /\ hPosts'[k].id = hPosts[k].id
                      /\ hPosts'[k].title = hPosts[k].title
                      /\ hPosts'[k].content = hPosts[k].content
                      /\ hPosts'[k].author = hPosts[k].author
                 ELSE hPosts'[k] = hPosts[k]]_vars

\* C3 happens: a like succeeded on a list of two posts and left one of them
\* with values only a like response produces.
C3_Witness ==
    /\ ev = Event("handleLike.response", "ok")
    /\ Len(hPosts) >= 2
    /\ \E k \in 1..Len(hPosts) : hPosts[k].is_liked /\ hPosts[k].like_count = 0
    /\ \E k \in 1..Len(hPosts) : hPosts[k].is_liked = (hPosts[k].like_count = 1)

\* C4: a handleDelete whose confirmation is declined issues no request and
\* leaves posts, error and editingPost unchanged; a DELETE request for a post
\* enters the network only in a handleDelete of that post that was confirmed.
C4_DeleteNeedsConfirmation ==
    /\ [][\A p \in PostIds : handleDelete(p, FALSE)
            => /\ net' = net
               /\ mPosts' = mPosts /\ mError' = mError /\ editingPost' = editingPost]_vars
    /\ [][\A p \in PostIds : \A r \in BagToSet(net') :
            (r.kind = "delete" /\ r.id = p /\ CopiesIn(r, net') > CopiesIn(r, net))
            => ev' = Event("handleDelete", "confirmed")]_vars

\* C4 happens: a delete was declined on a non-empty list.
C4_Witness ==
    /\ ev = Event("handleDelete", "declined")
    /\ Len(mPosts) > 0
    /\ \A r \in Waiting : r.kind # "delete"

\* The DELETE request handleDelete(p) sends from the present state.
DeleteRequest(p) == Request("delete", p, Bearer(token), mPosts, p, NoBody)

\* C5: a confirmed handleDelete(p) issues exactly one DELETE request for p,
\* and when that request succeeds the list becomes the list as it was just
\* before the response, without p: the other posts stay, in their order.
C5_DeleteRemovesOnlyThatPost ==
    /\ [][\A p \in PostIds : handleDelete(p, TRUE)
            => net' = net (+) SetToBag({DeleteRequest(p)})]_vars
    /\ [][\A r \in Waiting : handleDelete_response(r, Success)
            => mPosts' = WithoutPost(mPosts, r.id)]_vars

\* C6: an edit submission for p issues exactly one PUT request for p, and on
\* success the entry with id p of the list as it was just before the response
\* is replaced by the returned post at its index, the length and the other
\* entries are unchanged, and editingPost becomes null.
C6_EditReplacesInPlace ==
    /\ [][(handleEditSubmit /\ editingPost # NoPost)
            => /\ BagCardinality(net') = BagCardinality(net) + 1
               /\ \E r \in BagToSet(net') :
                    /\ r.kind = "update" /\ r.id = editingPost.id
                    /\ net' = net (+) SetToBag({r})]_vars
    /\ [][\A r \in Waiting : \A data \in {d \in UpdateData(r) : d.present} :
            handleEditSubmit_response(r, Success, data)
            => /\ mPosts' = ReplacePost(mPosts, r.id, data.post)
               /\ editingPost' = NoPost]_vars

\* C7: handleEditSubmit for an open edit with the token absent issues no
\* request and sets an error.
C7_EditWithoutTokenBlocked ==
    [][(handleEditSubmit /\ editingPost # NoPost /\ token = Null)
         => /\ net' = net
            /\ Truthy(mError')]_vars

\* C8: with no credential, the list-mine fetch on mount, a confirmed delete
\* and a profile update submit issue no request.
C8_NoCredentialNoRequest ==
    [][((token = Null /\ storedToken = Null)
          /\ (\/ MyPosts_fetchPosts
              \/ \E p \in PostIds : handleDelete(p, TRUE)
              \/ Profile_handleSubmit))
         => net' = net]_vars

\* C9: handleLike(p) with the user absent, or with the user present and the
\* token absent, issues no request and leaves the posts unchanged, and p is
\* not in likingPosts when it has finished.
C9_LikeWithoutIdentity ==
    [][\A p \in PostIds : (handleLike(p) /\ (user = Null \/ token = Null))
         => /\ net' = net
            /\ hPosts' = hPosts
            /\ p \notin likingPosts']_vars

\* C9 happens: handleLike alerted for a present user without a token, on a
\* fetched list.
C9_Witness ==
    /\ ev = Event("handleLike", LikeAlert)
    /\ user # Null /\ token = Null
    /\ Len(hPosts) > 0
    /\ net = EmptyBag /\ likingPosts = {}

\* C10: when a PUT or DELETE of MyPosts fails, the list stays as it was, error
\* becomes one non-empty string (for the edit the body's message when there
\* is one, else the fallback; for the delete the fallback), and the handler
\* sends nothing more.
C10_FailureLeavesList ==
    [][\A r \in {q \in Waiting : /\ q.kind \in {"update", "delete"}
                                  /\ CopiesIn(q, net') < CopiesIn(q, net)} :
       \A out \in Failures :
         /\ handleDelete_response(r, out)
              => /\ mPosts' = mPosts
                 /\ mError' = DeleteFailed
                 /\ net' = net (-) SetToBag({r})
         /\ (\E data \in UpdateData(r) : handleEditSubmit_response(r, out, data))
              => /\ mPosts' = mPosts
                 /\ mError' = (IF out.msg # Null THEN out.msg ELSE UpdateFailed)
                 /\ mError' # ""
                 /\ net' = net (-) SetToBag({r})]_vars

\* C10 happens: an edit failed with the server's message, the list still
\* there and the edit form still open.
C10_Witness ==
    /\ ev = Event("handleEditSubmit.response", "failed")
    /\ mError = ServerMsg
    /\ Len(mPosts) > 0
    /\ editingPost # NoPost


\* A list fetch, edit, delete, create or profile update fails.
FailureStep ==
    \E r \in Waiting, out \in Failures :
        \/ \E data \in ListData : Home_fetchResponse(r, out, data)
        \/ \E data \in MineData : MyPosts_fetchResponse(r, out, data)
        \/ r.kind = "update" /\ \E data \in UpdateData(r) : handleEditSubmit_response(r, out, data)
        \/ handleDelete_response(r, out)
        \/ CreatePost_response(r, out)
        \/ \E u \in Users : Profile_response(r, out, u)

\* An edit, delete or profile update succeeds on the open view.
SuccessStep ==
    \E r \in Waiting :
        \/ r.kind = "update" /\ \E data \in {d \in UpdateData(r) : d.present} :
              handleEditSubmit_response(r, Success, data)
        \/ handleDelete_response(r, Success)
        \/ \E u \in Users : Profile_response(r, Success, u)

\* C11: an error is terminal for the triggering action only: after a failed
\* list fetch, edit, delete, create or profile update the open view still
\* offers its actions, and after the next action that succeeds the view holds
\* no error.
C11_ErrorEndsOnlyItsAction ==
    /\ [][FailureStep => ActionsOffered']_vars
    /\ [][SuccessStep => ~Truthy(ViewError')]_vars


\* A user-triggered action that passed its guards: the fetch on mount, a like
\* click, a create submit, an edit submit, a confirmed delete, a profile
\* submit.
TriggerStep ==
    \/ Home_fetchPosts
    \/ MyPosts_fetchPosts
    \/ \E p \in PostIds :
          handleLike(p) /\ Truthy(user) /\ ~AlreadyLiking(p) /\ Truthy(token)
    \/ CreatePost_handleSubmit /\ ~NotLoggedIn
    \/ handleEditSubmit /\ editingPost # NoPost
    \/ \E p \in PostIds : handleDelete(p, TRUE)
    \/ Profile_handleSubmit

\* C12: no request is retried: a step issues a request only when it is a
\* user-triggered action that passed its guards, and then exactly one; every
\* other step, the arrival of a success or of a failure included, issues none,
\* so the requests issued count the triggering actions.
C12_NoRetry ==
    /\ [][TriggerStep
            => /\ issued' = issued + 1
               /\ \E r \in BagToSet(net') : net' = net (+) SetToBag({r})]_vars
    /\ [][~TriggerStep
            => /\ issued' = issued
               /\ \A r \in BagToSet(net') : CopiesIn(r, net') <= CopiesIn(r, net)]_vars

\* C12 happens: a delete failed after the list had been fetched, two
\* requests were issued in all and none is in flight.
C12_Witness ==
    /\ ev = Event("handleDelete.response", "failed")
    /\ issued = 2
    /\ net = EmptyBag


\* The requests of one kind for one target that await their response.
Outstanding(kind, id) ==
    BagCardinality([r \in {q \in Waiting : q.kind = kind /\ q.id = id} |-> net[r]])

\* C13: at every moment at most one create request, at most one update
\* request and one delete request per post id, and at most one profile update
\* request is outstanding.
C13_OneRequestPerTarget ==
    /\ Outstanding("create", 0) <= 1
    /\ Outstanding("profile", 0) <= 1
    /\ \A p \in PostIds : Outstanding("update", p) <= 1 /\ Outstanding("delete", p) <= 1


\* C14: in CreatePost with a user and a token, a submit sends exactly one POST
\* carrying the form's title and content and does not navigate; when the POST
\* succeeds the router goes to "/"; when it fails the router stays, error
\* becomes the body's message or 'Failed to create post' and the form keeps
\* its values; loading is false after either response.
C14_CreateSubmit ==
    /\ [][(CreatePost_handleSubmit /\ Truthy(user) /\ Truthy(token))
            => /\ net' = net (+) SetToBag({[kind |-> "create", id |-> 0,
                                           auth |-> Bearer(token), cap |-> <<>>,
                                           capId |-> 0, body |-> formData]})
               /\ issued' = issued + 1
               /\ location' = location]_vars
    /\ [][\A r \in Waiting :
            CreatePost_response(r, Success)
            => location' = "/" /\ cLoading' = FALSE /\ formData' = formData]_vars
    /\ [][\A r \in Waiting : \A out \in Failures :
            CreatePost_response(r, out)
            => /\ location' = location /\ phase' = phase
               /\ cError' = (IF out.msg # Null THEN out.msg ELSE CreateFailed)
               /\ formData' = formData
               /\ cLoading' = FALSE]_vars

\* C14 happens: a post typed into the form was created and the router went
\* from /create to the collection view.
C14_Witness ==
    /\ ev = Event("CreatePost.response", "ok")
    /\ location = "/"
    /\ formData.title = "B" /\ formData.content = "y"
    /\ ~cLoading


\* C15: a successful profile update makes the user the one the server
\* returned and leaves edit mode; a failed one leaves the user and the edit
\* mode alone and sets error to the server's message or 'Failed to update
\* profile'; loading is false after either.
C15_ProfileUpdate ==
    /\ [][\A r \in Waiting : \A u \in Users :
            Profile_response(r, Success, u)
            => user' = u /\ isEditing' = FALSE /\ pLoading' = FALSE]_vars
    /\ [][\A r \in Waiting : \A out \in Failures : \A u \in Users :
            Profile_response(r, out, u)
            => /\ user' = user
               /\ isEditing' = isEditing
               /\ pError' = (IF out.msg # Null THEN out.msg ELSE ProfileFailed)
               /\ pLoading' = FALSE]_vars


\* The loading flag of the open list view.
ListLoading == IF page = "home" THEN hLoading ELSE isLoading

\* The list request of the open view awaits its response.
ListRequested ==
    \E r \in Waiting : r.kind = (IF page = "home" THEN "list" ELSE "listMine")

\* C16: a list view starts with loading true; while the view is open, loading
\* is true only as long as the list request has not resolved, so it becomes
\* false when the request resolves, and once false it stays false; the
\* response ends loading with one outcome, either the posts of the response
\* and no error, or an error and the initial empty list.
C16_LoadingThenOutcome ==
    /\ [][/\ phase = "init" => ListLoading
          /\ (phase' = "mounted" /\ ListLoading') => ListRequested']_vars
    /\ [][~ListLoading => ~ListLoading']_vars
    /\ [][\A r \in {q \in Waiting : q.kind = "list"} : \A data \in ListData :
            /\ Home_fetchResponse(r, Success, data)
                 => /\ ~hLoading'
                    /\ hPosts' = (IF data.isArray THEN data.items ELSE <<>>)
                    /\ ~Truthy(hError')
            /\ \A out \in Failures :
                 Home_fetchResponse(r, out, data)
                 => ~hLoading' /\ Truthy(hError') /\ hPosts' = <<>>]_vars
    /\ [][\A r \in {q \in Waiting : q.kind = "listMine"} : \A data \in MineData :
            /\ MyPosts_fetchResponse(r, Success, data)
                 => ~isLoading' /\ mPosts' = data.items /\ ~Truthy(mError')
            /\ \A out \in Failures :
                 MyPosts_fetchResponse(r, out, data)
                 => ~isLoading' /\ Truthy(mError') /\ mPosts' = <<>>]_vars

\* C16 happens: Home's list request failed with a status whose body carries
\* no message; loading is over, the fallback is the error and the list is
\* still empty.
C16_Witness ==
    /\ ev = Event("Home.fetchResponse", "failed")
    /\ ~hLoading
    /\ hError = FetchFailed
    /\ hPosts = <<>>


\* C17: the summary a card shows is the content itself when the content has
\* at most 150 characters, 150 included, and otherwise the content's first
\* 150 characters followed by '...'; it never has more than 153 characters.
C17_SummaryTruncates ==
    [][\A k \in 1..Len(hPosts) :
         Home_renderCard(k)
         => LET content == hPosts[k].content
                shown == ev'.shown
            IN  /\ Len(shown) <= 153
                /\ Len(content) <= 150 => shown = content
                /\ Len(content) > 150
                     => /\ Len(shown) = 153
                        /\ \A i \in 1..150 : shown[i] = content[i]
                        /\ \A i \in 151..153 : shown[i] = "."]_vars

\* C17 happens: a card whose content has exactly 150 characters shows all of
\* it.
C17_Witness ==
    /\ ev.op = "Home.card"
    /\ Len(hPosts) = 1 /\ Len(hPosts[1].content) = 150
    /\ Len(ev.shown) = 150


\* The precedence loading > error > empty-state > list, for a view with the
\* given loading flag, error and posts.
Precedence(view, loading, error, posts) ==
    /\ loading => view = "loading"
    /\ (~loading /\ Truthy(error)) => view = "error"
    /\ (~loading /\ ~Truthy(error) /\ posts = <<>>) => view = "empty"
    /\ view = "list" <=> (~loading /\ ~Truthy(error) /\ posts # <<>>)

\* C18: what Home and MyPosts show is decided by (loading, error, posts) with
\* the precedence loading > error > empty-state > list: the list is shown
\* only when loading is false, error is empty and posts is non-empty, and a
\* list fetch that succeeds with [] leaves the view at the empty-state
\* message.
C18_ViewPrecedence ==
    /\ [][/\ Precedence(HomeView, hLoading, hError, hPosts)
          /\ Precedence(HomeView', hLoading', hError', hPosts')
          /\ Precedence(MyPostsView, isLoading, mError, mPosts)
          /\ Precedence(MyPostsView', isLoading', mError', mPosts')]_vars
    /\ [][\A r \in {q \in Waiting : q.kind = "list"} :
            Home_fetchResponse(r, Success, [isArray |-> TRUE, items |-> <<>>])
            => HomeView' = "empty"]_vars
    /\ [][\A r \in {q \in Waiting : q.kind = "listMine"} :
            MyPosts_fetchResponse(r, Success, [shape |-> "array", items |-> <<>>])
            => MyPostsView' = "empty"]_vars

\* C18 happens: MyPosts holds an error and a non-empty list, and shows the
\* error.
C18_Witness ==
    /\ page = "myposts" /\ phase = "mounted"
    /\ ~isLoading /\ Truthy(mError) /\ Len(mPosts) > 0
    /\ MyPostsView = "error"


\* C19: every request sent for an authenticated operation (create, update,
\* delete, like, list-mine, profile update) carries Authorization 'Bearer t'
\* with t the token the auth context holds when it is sent, which is not
\* absent; Home's public list request carries that header exactly when a
\* token is present.
C19_BearerOnEveryRequest ==
    [][\A r \in BagToSet(net') :
         CopiesIn(r, net') > CopiesIn(r, net)
         => IF r.kind = "list"
            THEN r.auth = (IF token # Null THEN Bearer(token) ELSE NoHeader)
            ELSE token # Null /\ r.auth = Bearer(token)]_vars


\* C20: handleShare(postId, channel, post) makes one browser call per channel
\* and sends nothing to the backend: copy writes the post's URL to the
\* clipboard; twitter, facebook and linkedin open one new window on the
\* constructed URL; email navigates to the mail client; native calls
\* navigator.share only when the browser has it; any other channel does
\* nothing; posts, likingPosts, loading and error stay as they were.
C20_ShareTouchesNothing ==
    [][\A k \in {j \in 1..Len(hPosts) : ev'.op = "handleShare"} :
       \A type \in Channels : \A hasShare \in BOOLEAN :
         handleShare(hPosts[k].id, type, hPosts[k], hasShare)
         => LET url == "origin/post/" \o ToString(hPosts[k].id)
                did == ev'.shown
            IN  /\ net' = net /\ issued' = issued
                /\ hPosts' = hPosts /\ likingPosts' = likingPosts
                /\ hLoading' = hLoading /\ hError' = hError
                /\ type = "copy" => did = "clipboard.writeText " \o url
                /\ type \in {"twitter", "facebook", "linkedin"}
                     => SubSeq(did, 1, 12) = "window.open "
                /\ type = "email" => SubSeq(did, 1, 21) = "location.href mailto:"
                /\ type = "native"
                     => did = (IF hasShare THEN "navigator.share " \o url ELSE "none")
                /\ type = "other" => did = "none"]_vars

\* C20 happens: a share to twitter was made while a like was in flight.
C20_Witness ==
    /\ \E k \in 1..Len(hPosts) :
          ev = Event("handleShare",
                     ShareEffect(hPosts[k].id, "twitter", hPosts[k], FALSE))
    /\ likingPosts # {} /\ BagCardinality(net) = 1


\* C21: the views never write the credential: a step changes the token, in
\* memory or stored, only when it is the auth context's logout, and changes
\* the user only when it is logout or a profile update that succeeded, which
\* goes through updateUser and leaves the token alone.
C21_CredentialWrittenByAuthOnly ==
    /\ [][(token' # token \/ storedToken' # storedToken) => handleLogout]_vars
    /\ [][user' # user
            => \/ handleLogout
               \/ \E r \in Waiting, u \in Users :
                    /\ Profile_response(r, Success, u)
                    /\ user' = u /\ token' = token /\ storedToken' = storedToken]_vars

\* C21 happens: a profile update succeeded and changed the user, the token
\* held and stored as before.
C21_Witness ==
    /\ ev = Event("Profile.response", "ok")
    /\ user = "alice2"
    /\ token = "tok" /\ storedToken = "tok"


\* Entry of post p in a list carries the values d of a like response.
Carries(posts, p, d) ==
    \A k \in 1..Len(posts) :
        posts[k].id = p => posts[k].like_count = d.like_count /\ posts[k].is_liked = d.is_liked

\* C22: like requests for two different posts can be in flight together, and
\* whatever the order of their successful responses both updates are in the
\* final list: a response for p is applied to the list as it is when the
\* response arrives, gives p's entry the values returned for p and leaves
\* every other entry and every other waiting request as they are, so the two
\* orders end in the same list, p with p's values and q with q's.
C22_ConcurrentLikesBothApplied ==
    /\ [][\A r \in {x \in Waiting : x.kind = "like" /\ CopiesIn(x, net') < CopiesIn(x, net)} :
          \A data \in LikeData :
            handleLike_response(r, Success, data)
            => /\ Carries(hPosts', r.id, data)
               /\ Len(hPosts') = Len(hPosts)
               /\ \A k \in 1..Len(hPosts) : hPosts[k].id # r.id => hPosts'[k] = hPosts[k]
               /\ \A x \in Waiting \ {r} : CopiesIn(x, net') = CopiesIn(x, net)]_vars
    /\ [][\A p \in PostIds : \A q \in PostIds \ {p} :
            (LikesInFlight(p) > 0 /\ LikesInFlight(q) > 0)
            => \A dp \in LikeData : \A dq \in LikeData :
                 LET pThenQ == ApplyLike(ApplyLike(hPosts, p, dp), q, dq)
                     qThenP == ApplyLike(ApplyLike(hPosts, q, dq), p, dp)
                 IN  /\ pThenQ = qThenP
                     /\ Carries(pThenQ, p, dp) /\ Carries(pThenQ, q, dq)
                     /\ \E k \in 1..Len(hPosts) : hPosts[k].id = p
                     /\ \E k \in 1..Len(hPosts) : hPosts[k].id = q]_vars

\* C22 happens: the like of one post succeeded while the like of another was
\* still in flight; the first carries values only a like response produces.
C22_Witness ==
    /\ ev = Event("handleLike.response", "ok")
    /\ \E p \in PostIds : \E q \in PostIds \ {p} :
          /\ LikesInFlight(q) = 1 /\ q \in likingPosts /\ p \notin likingPosts
          /\ \E k \in 1..Len(hPosts) :
                hPosts[k].id = p /\ hPosts[k].is_liked /\ hPosts[k].like_count = 0


\* The local like_count of post p differs from the backend's.
Drift(p) == \E k \in 1..Len(hPosts) : hPosts[k].id = p /\ hPosts[k].like_count # serverLikes[p]

\* A like toggle of post p succeeds.
LikeSucceeds(p) ==
    \E r \in {x \in Waiting : x.kind = "like" /\ x.id = p} : \E data \in LikeData :
        handleLike_response(r, Success, data) /\ Carries(hPosts', p, data)

\* C23: the list is requested once, by the mount effect, and never by a like
\* toggle; after it was fetched an entry changes only when a toggle of that
\* same post succeeds, and then to the values of that toggle's response; so
\* once another client has made the backend's count of a post differ from the
\* local one, no event of Home but a successful like of that post brings the
\* two back into agreement.
C23_NoRefetchSoDrift ==
    /\ [][\A r \in {x \in BagToSet(net') : x.kind = "list"} :
            CopiesIn(r, net') > CopiesIn(r, net)
            => Home_fetchPosts /\ issued = 0]_vars
    /\ [][\A k \in 1..Len(hPosts) :
            (Len(hPosts') # Len(hPosts) \/ hPosts'[k] # hPosts[k])
            => /\ Len(hPosts') = Len(hPosts)
               /\ LikeSucceeds(hPosts[k].id)]_vars
    /\ [][\A p \in PostIds :
            (Drift(p) /\ ~Drift(p)') => (LikeSucceeds(p) \/ OtherClient(p))]_vars

\* C23 happens: another client changed the likes of a listed post, a like of
\* a different post succeeded after that, and the first post's local count
\* still differs from the backend's.
C23_Witness ==
    /\ ev = Event("handleLike.response", "ok")
    /\ net = EmptyBag /\ issued = 2
    /\ \E p \in PostIds : \E q \in PostIds \ {p} :
          /\ Drift(p) /\ ~Drift(q)
          /\ \E k \in 1..Len(hPosts) :
                hPosts[k].id = q /\ hPosts[k].is_liked /\ hPosts[k].like_count = 0


\* The ids of the posts of a list.
Ids(posts) == {posts[k].id : k \in 1..Len(posts)}

\* The entry of post p in a list that has it.
EntryOf(posts, p) == CHOOSE q \in {posts[k] : k \in 1..Len(posts)} : q.id = p

\* C24: whatever the interleaving of edits and deletes in flight together,
\* each successful operation is applied once: after the list was fetched a
\* post that is not in it (its DELETE succeeded) is in it in no later state,
\* and the entry of a post changes only when a PUT for that post succeeds, so
\* it keeps the returned version until it is edited or deleted again.
C24_EachOperationAppliedOnce ==
    /\ [][\A p \in PostIds :
            (~isLoading /\ p \notin Ids(mPosts)) => p \notin Ids(mPosts')]_vars
    /\ [][\A p \in Ids(mPosts) \cap Ids(mPosts') :
            EntryOf(mPosts', p) # EntryOf(mPosts, p)
            => \E r \in {x \in Waiting : x.kind = "update" /\ x.id = p} :
                 \E data \in {d \in UpdateData(r) : d.present} :
                    /\ handleEditSubmit_response(r, Success, data)
                    /\ EntryOf(mPosts', p) = data.post]_vars


\* C25: the in-flight set is released on every path: when the response of a
\* like of p arrives, whatever it is, or when handleLike(p) returns for want
\* of a token, p is not in likingPosts afterwards; while Home is open p is in
\* likingPosts exactly while a like request for p awaits its response; a like
\* of p with nothing in flight for p is accepted; and on a network that
\* answers, p does not stay in likingPosts of the open view.
C25_LikeReleased ==
    /\ [][\A r \in {x \in Waiting : x.kind = "like" /\ CopiesIn(x, net') < CopiesIn(x, net)} :
          \A out \in Outcomes : \A data \in LikeData :
            handleLike_response(r, out, data) => r.id \notin likingPosts']_vars
    /\ [][\A p \in PostIds :
            (handleLike(p) /\ Truthy(user) /\ p \notin likingPosts /\ ~Truthy(token))
            => p \notin likingPosts' /\ net' = net]_vars
    /\ [][phase' = "mounted"
            => \A p \in PostIds : (p \in likingPosts') <=> (LikesInFlight(p)' > 0)]_vars
    /\ [][\A p \in PostIds :
            (handleLike(p) /\ Truthy(user) /\ Truthy(token) /\ LikesInFlight(p) = 0)
            => LikesInFlight(p)' = 1 /\ p \in likingPosts']_vars
    /\ \A p \in PostIds :
          (p \in likingPosts) ~> (p \notin likingPosts \/ phase = "unmounted")

\* C25 happens: the one post of the list was liked, that like was answered
\* and released, and a second like of the post has been accepted.
C25_Witness ==
    /\ ev = Event("handleLike", "sent")
    /\ Len(hPosts) = 1
    /\ issued = 3
    /\ likingPosts = {hPosts[1].id}
    /\ LikesInFlight(hPosts[1].id) = 1
    /\ hPosts[1].is_liked = (hPosts[1].like_count = 1)


\* C26: a like request that fails, by its status or by the network, leaves
\* posts, loading and error of Home as they were: the failure is an alert
\* with a message, and the view goes on showing the list.
C26_LikeFailureOnlyAlerts ==
    [][\A r \in {x \in Waiting : x.kind = "like" /\ CopiesIn(x, net') < CopiesIn(x, net)} :
       \A out \in Failures : \A data \in LikeData :
         handleLike_response(r, out, data)
         => /\ hPosts' = hPosts
            /\ hLoading' = hLoading
            /\ hError' = hError
            /\ HomeView = "list" /\ HomeView' = "list"
            /\ ev'.shown = (CASE out.status = "threw" -> NetErrMsg
                              [] out.msg # Null -> out.msg
                              [] OTHER -> LikeFailed)]_vars

\* C26 happens: a like was refused with the server's message; the alert
\* showed it and the list is still displayed, with no error.
C26_Witness ==
    /\ ev = Event("handleLike.response", ServerMsg)
    /\ HomeView = "list"
    /\ hError = Null /\ ~hLoading
    /\ net = EmptyBag /\ likingPosts = {}


\* C27: an update that comes back with a success status and an empty body is
\* a failure: the list is unchanged, editingPost is left as it is, so the
\* post being edited stays open, and error becomes 'Failed to update post'.
C27_EmptyBodyIsFailure ==
    [][\A r \in {x \in Waiting : x.kind = "update" /\ CopiesIn(x, net') < CopiesIn(x, net)} :
         handleEditSubmit_response(r, Success, [present |-> FALSE, post |-> NoPost])
         => /\ mPosts' = mPosts
            /\ editingPost' = editingPost
            /\ editingPost.id = r.id => editingPost'.id = r.id
            /\ mError' = "Failed to update post"]_vars

\* C27 happens: the update of the post that is open for edit was answered
\* with an empty body.
C27_Witness ==
    /\ ev = Event("handleEditSubmit.response", NoData)
    /\ editingPost # NoPost
    /\ editingPost \in {mPosts[k] : k \in 1..Len(mPosts)}
    /\ editForm.title = "B"
    /\ mError = UpdateFailed
    /\ net = EmptyBag


\* C28: handleEdit(post) makes editingPost that post and editForm its title
\* and content as the list has them; the Cancel button makes editingPost null,
\* sends nothing and leaves the list; handleEditSubmit with editingPost null
\* sends nothing and changes no state of the view.
C28_EditDialogFrame ==
    /\ [][\A k \in 1..Len(mPosts) :
            handleEdit(mPosts[k])
            => /\ editingPost' = mPosts[k]
               /\ editForm' = [title |-> mPosts[k].title, content |-> mPosts[k].content]
               /\ net' = net /\ mPosts' = mPosts]_vars
    /\ [][cancelEdit
            => /\ editingPost' = NoPost
               /\ net' = net /\ issued' = issued
               /\ mPosts' = mPosts]_vars
    /\ [][(handleEditSubmit /\ editingPost = NoPost)
            => /\ net' = net /\ issued' = issued
               /\ UNCHANGED <<mPosts, isLoading, mError, editingPost, editForm>>
               /\ UNCHANGED <<user, token, storedToken, location, phase>>]_vars

\* C28 happens: a post whose title an earlier edit had changed is opened for
\* edit again, and the form holds the changed title.
C28_Witness ==
    /\ ev = Event("handleEdit", "")
    /\ editingPost \in {mPosts[k] : k \in 1..Len(mPosts)}
    /\ editingPost.title = "B"
    /\ editForm = [title |-> "B", content |-> editingPost.content]
    /\ net = EmptyBag


\* C29: at most one share dropdown is open: shareDropdown is no post or one
\* post, and at most one card has that id.  Toggling the open post's dropdown
\* closes it and toggling another post's moves it there.  handleShare closes
\* the dropdown at once for twitter, facebook, linkedin and email and leaves
\* it for copy and native, whose promise closes it when it is fulfilled and
\* leaves it open when it is rejected.
C29_OneDropdown ==
    /\ [][/\ shareDropdown' \in PostIds \cup {0}
          /\ Cardinality({k \in 1..Len(hPosts') : hPosts'[k].id = shareDropdown'}) <= 1]_vars
    /\ [][\A k \in {j \in 1..Len(hPosts) : ev'.op = "toggleShareDropdown"} :
            toggleShareDropdown(hPosts[k].id)
            => shareDropdown' = (IF shareDropdown = hPosts[k].id THEN 0 ELSE hPosts[k].id)]_vars
    /\ [][\A k \in {j \in 1..Len(hPosts) : ev'.op = "handleShare"} :
          \A type \in Channels : \A hasShare \in BOOLEAN :
            handleShare(hPosts[k].id, type, hPosts[k], hasShare)
            => IF type \in {"twitter", "facebook", "linkedin", "email"}
               THEN shareDropdown' = 0
               ELSE shareDropdown' = shareDropdown]_vars
    /\ [][\A type \in {t \in {"copy", "native"} : ev'.op = "handleShare.settled"} :
            /\ (handleShare_settled(type, TRUE) /\ phase = "mounted") => shareDropdown' = 0
            /\ handleShare_settled(type, FALSE) => shareDropdown' = shareDropdown]_vars

\* C29 happens: a copy failed and the dropdown it was chosen from is still
\* open.
C29_Witness ==
    /\ ev = Event("handleShare.settled", "Failed to copy link")
    /\ \E k \in 1..Len(hPosts) : shareDropdown = hPosts[k].id
    /\ promises = NoPromises
    /\ phase = "mounted"

====
